---------------------------- MODULE Spec2Model ----------------------------
(***************************************************************************)
(* Model of generate_news.py: fetch_feed -> parse_items -> build_html (en, *)
(* fa) -> the two file writes of main().                                   *)
(*                                                                         *)
(* Text is a sequence of atoms.  An atom is one character, or a run of     *)
(* characters none of which is whitespace or one of & < > " ' (used for    *)
(* the words of a date).  Python's None is the empty sequence of an        *)
(* "optional" (a sequence holding zero or one text).                       *)
(***************************************************************************)
EXTENDS Integers, Sequences, FiniteSets, TLC

VARIABLES
    pc,          \* position inside main() (or inside the parse_items caller)
    server,      \* what the feed URL answers: [ok, body]
    feed_data,   \* main's feed_data (bytes), valid once fetch returned
    limit,       \* the limit argument of parse_items
    items,       \* main's items, the list parse_items returned
    en_html,     \* main's en_html: <<>> before it is built, else <<page>>
    fa_html,     \* main's fa_html
    en_file,     \* content of news.html on disk
    fa_file,     \* content of news-fa.html on disk
    stages,      \* the statements of main() executed so far, in order
    exc,         \* the exception that left main(), "" when none
    exit_status  \* process exit status, -1 while running

vars == <<pc, server, feed_data, limit, items, en_html, fa_html,
          en_file, fa_file, stages, exc, exit_status>>

(***************************************************************************)
(* Bounds of the model                                                     *)
(***************************************************************************)
MaxItems == 3
MaxLimit == 3

(***************************************************************************)
(* Program constants                                                       *)
(***************************************************************************)
ARTICLE_LIMIT == 10
FEED_URL == "https://www.hospitalitynet.org/news/global.xml"
en_path == "news.html"
fa_path == "news-fa.html"

\* An uncaught exception leaving main() ends the interpreter with status 1;
\* returning from main() ends it with status 0.
ExitOk == 0

\* a top-level handler that swallows the exception
ExitStatusHandled == ExitOk

ExitStatusOnException == 1

(***************************************************************************)
(* Text helpers: str.strip, str.replace, html.escape                       *)
(***************************************************************************)
WS == {" "}

RECURSIVE lstrip(_)
lstrip(s) == IF s # <<>> /\ Head(s) \in WS THEN lstrip(Tail(s)) ELSE s

RECURSIVE rstrip(_)
rstrip(s) ==
    IF s # <<>> /\ s[Len(s)] \in WS THEN rstrip(SubSeq(s, 1, Len(s) - 1)) ELSE s

strip(s) == rstrip(lstrip(s))

\* s.replace(c, r) for a one-character c
RECURSIVE replace(_, _, _)
replace(s, c, r) ==
    IF s = <<>> THEN <<>>
    ELSE (IF Head(s) = c THEN r ELSE <<Head(s)>>) \o replace(Tail(s), c, r)

AMP  == <<"&", "a", "m", "p", ";">>
LT   == <<"&", "l", "t", ";">>
GT   == <<"&", "g", "t", ";">>
QUOT == <<"&", "q", "u", "o", "t", ";">>
APOS == <<"&", "#", "x", "2", "7", ";">>

\* html.escape with quote=False: the two quote characters are left alone
escape_noquote(s) ==
    replace(replace(replace(s, "&", AMP), "<", LT), ">", GT)

\* html.escape(s): & first, then < and >, then the two quotes
escape(s) ==
    replace(replace(replace(replace(replace(s, "&", AMP), "<", LT), ">", GT),
                    "\"", QUOT), "'", APOS)

(***************************************************************************)
(* ElementTree: an item element holds, per tag, the sequence of its        *)
(* children with that tag, in document order.  A text child is its text;   *)
(* a media:content child is [url |-> optional text].                       *)
(***************************************************************************)
\* item.findtext(tag) with no default: None for a missing child
findtext_nodefault(children, default) ==
    IF children = <<>> THEN [none |-> TRUE, text |-> <<>>]
    ELSE [none |-> FALSE, text |-> Head(children)]

\* item.findtext(tag, default=...): text of the first child, or the default
findtext(children, default) ==
    IF children = <<>> THEN [none |-> FALSE, text |-> default]
    ELSE [none |-> FALSE, text |-> Head(children)]

(***************************************************************************)
(* email.utils.parsedate_to_datetime and datetime.strftime('%d %B %Y')     *)
(***************************************************************************)
DayNames  == {"Sat,", "Mon,"}
DayAtoms  == {"5", "20"}
MonthName == [m \in {"Jan", "Sep"} |-> IF m = "Jan" THEN "January" ELSE "September"]
YearAtoms == {"2025"}
TimeAtoms == {"10:00:00"}

Words(s) == SelectSeq(s, LAMBDA a : a \notin WS)

parsedate_to_datetime(raw) ==
    LET w  == Words(raw)
        w2 == IF w # <<>> /\ Head(w) \in DayNames THEN Tail(w) ELSE w
    IN  IF /\ Len(w2) >= 4
           /\ w2[1] \in DayAtoms
           /\ w2[2] \in DOMAIN MonthName
           /\ w2[3] \in YearAtoms
           /\ w2[4] \in TimeAtoms
        THEN [ok |-> TRUE, exc |-> "", day |-> w2[1], month |-> w2[2], year |-> w2[3]]
        ELSE [ok |-> FALSE, exc |-> "ValueError", day |-> "", month |-> "", year |-> ""]

\* %d is zero padded to two digits
strftime(dt) ==
    (IF dt.day \in {"5"} THEN <<"0", dt.day>> ELSE <<dt.day>>)
        \o <<" ", MonthName[dt.month], " ", dt.year>>

\* `except Exception:` catches every exception the try body can raise
ExceptCatches(e) == e \in {"ValueError", "TypeError", "OverflowError"}

\* a fallback that drops the raw string
date_str_blank(pub_date_raw) ==
    LET dt == parsedate_to_datetime(pub_date_raw)
    IN  IF dt.ok THEN [raised |-> FALSE, exc |-> "", text |-> strftime(dt)]
        ELSE IF ExceptCatches(dt.exc)
             THEN [raised |-> FALSE, exc |-> "", text |-> <<>>]
             ELSE [raised |-> TRUE, exc |-> dt.exc, text |-> <<>>]

\* the try/except around the date: formatted on success, raw on failure
date_str(pub_date_raw) ==
    LET dt == parsedate_to_datetime(pub_date_raw)
    IN  IF dt.ok THEN [raised |-> FALSE, exc |-> "", text |-> strftime(dt)]
        ELSE IF ExceptCatches(dt.exc)
             THEN [raised |-> FALSE, exc |-> "", text |-> pub_date_raw]
             ELSE [raised |-> TRUE, exc |-> dt.exc, text |-> <<>>]

(***************************************************************************)
(* parse_items                                                             *)
(***************************************************************************)
\* a placeholder picture for an item that has no media:content
image_url_placeholder(media) ==
    IF media = <<>> THEN <<<<"p">>>> ELSE Head(media).url

\* item.find('media:content', ns), then attrib.get('url'): an optional text
image_url_of(media) ==
    IF media = <<>> THEN <<>> ELSE Head(media).url

\* Python truth value of an optional text: neither None nor ''
Truthy(opt) == opt # <<>> /\ Head(opt) # <<>>

\* html.escape(image_url) if image_url else None
image_field(opt) == IF Truthy(opt) THEN <<escape(Head(opt))>> ELSE <<>>

\* the body of the for loop up to items.append: the record of one item
extract(item) ==
    LET t   == findtext(item.title, <<>>)
        l   == findtext(item.link, <<>>)
        d   == findtext(item.description, <<>>)
        p   == findtext(item.pubDate, <<>>)
        ds  == date_str(p.text)
        bad == t.none \/ l.none \/ d.none    \* None.strip() raises
    IN  IF bad THEN [raised |-> TRUE, exc |-> "AttributeError", rec |-> <<>>]
        ELSE IF ds.raised THEN [raised |-> TRUE, exc |-> ds.exc, rec |-> <<>>]
        ELSE [raised |-> FALSE, exc |-> "",
              rec |-> <<[title       |-> escape(strip(t.text)),
                         link        |-> escape(strip(l.text)),
                         description |-> escape(strip(d.text)),
                         date        |-> escape(ds.text),
                         image       |-> image_field(image_url_of(item.media))]>>]

\* an off-by-one cap
LimitReachedLate(n, lim) == n > lim

\* if len(items) >= limit: break
LimitReached(n, lim) == n >= lim

RECURSIVE parse_loop(_, _, _)
parse_loop(pending, acc, lim) ==
    IF pending = <<>> THEN [raised |-> FALSE, exc |-> "", items |-> acc]
    ELSE LET r == extract(Head(pending))
         IN  IF r.raised THEN [raised |-> TRUE, exc |-> r.exc, items |-> <<>>]
             ELSE LET acc2 == acc \o r.rec
                  IN  IF LimitReached(Len(acc2), lim)
                      THEN [raised |-> FALSE, exc |-> "", items |-> acc2]
                      ELSE parse_loop(Tail(pending), acc2, lim)

\* ET.fromstring raises ParseError unless the bytes are well-formed XML
parse_items(data, lim) ==
    IF ~data.wellformed THEN [raised |-> TRUE, exc |-> "ParseError", items |-> <<>>]
    ELSE parse_loop(data.items, <<>>, lim)


(***************************************************************************)
(* build_html.  A page is a record of the places the template fills in;    *)
(* cards is cards_joined, the lines of all cards in order.  The Farsi      *)
(* interface strings are written here in Latin transliteration.            *)
(***************************************************************************)
Line(kind, text, label) == [kind |-> kind, text |-> text, label |-> label]

\* lines 128-141: the lines of one article card
card(art, rtl) ==
    <<Line("col_open", <<>>, ""), Line("card_open", <<>>, "")>>
    \o (IF Truthy(art.image)
        THEN <<Line("img", Head(art.image), "News image")>> ELSE <<>>)
    \o <<Line("body_open", <<>>, ""),
         Line("h5", art.title, ""),
         Line("date", art.date, ""),
         Line("desc", art.description, ""),
         Line("a", art.link, IF rtl THEN "bishtar bekhanid" ELSE "Read More"),
         Line("div_close", <<>>, ""),
         Line("div_close", <<>>, ""),
         Line("div_close", <<>>, "")>>

\* a loop that only renders the articles that have a picture
RECURSIVE cards_with_image_only(_, _)
cards_with_image_only(its, rtl) ==
    IF its = <<>> THEN <<>>
    ELSE (IF Truthy(Head(its).image) THEN card(Head(its), rtl) ELSE <<>>)
         \o cards_with_image_only(Tail(its), rtl)

\* lines 126-143: for art in items ... '\n'.join(cards_html)
RECURSIVE cards_joined(_, _)
cards_joined(its, rtl) ==
    IF its = <<>> THEN <<>>
    ELSE card(Head(its), rtl) \o cards_joined(Tail(its), rtl)

build_html(its, lang) ==
    LET rtl == lang = "fa"
    IN  [lang          |-> IF rtl THEN "fa" ELSE "en",
         dir           |-> IF rtl THEN "rtl" ELSE "ltr",
         title         |-> IF rtl THEN "akharin akhbar va maghalat" ELSE "Latest Articles",
         description   |-> IF rtl THEN "tamami-e akhbar az manabe-e motabar"
                                  ELSE "Hand-curated news and articles from trusted hospitality and tourism sources.",
         brand         |-> IF rtl THEN "hotel news" ELSE "HotelNews",
         home_href     |-> IF rtl THEN "index-fa.html" ELSE "index.html",
         home          |-> IF rtl THEN "khaneh" ELSE "Home",
         news          |-> IF rtl THEN "maghalat" ELSE "Latest Articles",
         features_href |-> IF rtl THEN "index-fa.html#features" ELSE "index.html#features",
         features      |-> IF rtl THEN "vizhegi-ha" ELSE "Features",
         about_href    |-> IF rtl THEN "index-fa.html#about" ELSE "index.html#about",
         about         |-> IF rtl THEN "darbare-ye ma" ELSE "About",
         switch_href   |-> IF rtl THEN "index.html" ELSE "index-fa.html",
         switch_lang   |-> IF rtl THEN "English" ELSE "farsi",
         cards         |-> cards_joined(its, rtl),
         footer        |-> IF rtl THEN "tamam-e hoghugh mahfuz ast." ELSE "All rights reserved."]

\* a renderer that consumes the list it is given
ItemsDrained(its) == <<>>

\* the list passed to build_html after the call: the loop only reads it
ItemsAfterBuild(its) == its

(***************************************************************************)
(* Files: open(path, 'w', encoding='utf-8') then f.write(page)             *)
(***************************************************************************)
AbsentFile == [state |-> "absent", page |-> <<>>]
OldFile    == [state |-> "old", page |-> <<>>]
TruncFile  == [state |-> "truncated", page |-> <<>>]

\* mode 'a' or 'x' instead of 'w': earlier content survives
FileAfterAppend(old, page) ==
    IF old.state = "absent" THEN [state |-> "page", page |-> <<page>>]
    ELSE [state |-> "old+page", page |-> <<page>>]

\* mode 'w': the file holds exactly the page, whatever it held before
FileAfterWrite(old, page) == [state |-> "page", page |-> <<page>>]

WriteOutcomes == {"open_fails", "write_fails", "ok"}

\* the file after `with open(...) as f: f.write(page)` ends in outcome o
FileAfter(old, page, o) ==
    CASE o = "open_fails"  -> old
      [] o = "write_fails" -> TruncFile
      [] o = "ok"          -> FileAfterWrite(old, page)

(***************************************************************************)
(* Inputs: the feeds the URL can serve                                     *)
(***************************************************************************)
ValidDate  == <<"Sat,", " ", "20", " ", "Sep", " ", "2025", " ", "10:00:00", " ", "+0000">>
ValidDate2 == <<"5", " ", "Jan", " ", "2025", " ", "10:00:00">>

ItemPool ==
    { \* every child present, no thumbnail
      [title |-> << <<"T">> >>, link |-> << <<"u">> >>, description |-> << <<"d">> >>,
       pubDate |-> <<ValidDate>>, media |-> <<>>],
      \* every optional child missing
      [title |-> <<>>, link |-> <<>>, description |-> <<>>,
       pubDate |-> <<>>, media |-> <<>>],
      \* surrounding blanks, markup characters, an unparseable date, a thumbnail
      [title |-> << <<" ", "a", " ">> >>, link |-> << <<"u", "&", "v">> >>,
       description |-> << <<"<", "b", ">">> >>,
       pubDate |-> << <<"not-a-date">> >>,
       media |-> << [url |-> << <<"i", "&", "j">> >>] >>],
      \* source text that already reads like an entity, quotes, a date with markup,
      \* a first media:content without url followed by one with url
      [title |-> <<AMP>>, link |-> << <<"u">> >>,
       description |-> << <<"\"", "x", "'">> >>,
       pubDate |-> << <<"a", "<", "b">> >>,
       media |-> << [url |-> <<>>], [url |-> << <<"i">> >>] >>],
      \* empty elements, a date without day name, an empty url attribute
      [title |-> << <<>> >>, link |-> << <<>> >>, description |-> << <<"d">> >>,
       pubDate |-> <<ValidDate2>>, media |-> << [url |-> << <<>> >>] >>],
      \* a plain item with a thumbnail
      [title |-> << <<"T">> >>, link |-> << <<"u">> >>, description |-> << <<"d">> >>,
       pubDate |-> <<ValidDate>>, media |-> << [url |-> << <<"i">> >>] >>] }

SeqsUpTo(S, n) == UNION {[1..k -> S] : k \in 0..n}

\* feeds one item longer than the default cap, two items alternating
LongFeeds ==
    {[i \in 1..(ARTICLE_LIMIT + 1) |-> IF i % 2 = 1 THEN a ELSE b] :
        a \in ItemPool, b \in ItemPool}

Feeds == SeqsUpTo(ItemPool, MaxItems) \cup LongFeeds

\* well-formed documents, and byte strings that break off inside or after an item
Docs ==
    {[wellformed |-> TRUE, items |-> f] : f \in Feeds}
    \cup {[wellformed |-> FALSE, items |-> f] : f \in SeqsUpTo(ItemPool, 1)}

NoDoc == [wellformed |-> FALSE, items |-> <<>>]

Servers ==
    {[ok |-> TRUE, body |-> d] : d \in Docs} \cup {[ok |-> FALSE, body |-> NoDoc]}

StageOrder == <<"fetch", "parse", "render_en", "render_fa", "write_en", "write_fa">>

(***************************************************************************)
(* main()                                                                  *)
(***************************************************************************)
Init ==
    /\ pc = "fetch"
    /\ server \in Servers
    /\ feed_data = NoDoc
    /\ limit = ARTICLE_LIMIT
    /\ items = <<>>
    /\ en_html = <<>>
    /\ fa_html = <<>>
    /\ en_file \in {AbsentFile, OldFile}
    /\ fa_file \in {AbsentFile, OldFile}
    /\ stages = <<>>
    /\ exc = ""
    /\ exit_status = -1

\* an exception leaves main(): nothing after the raising statement runs
Raise(e) ==
    /\ exc' = e
    /\ pc' = "exit"
    /\ exit_status' = ExitStatusOnException

\* line 211: feed_data = fetch_feed(FEED_URL)
Fetch ==
    /\ pc = "fetch"
    /\ stages' = Append(stages, "fetch")
    /\ \/ /\ server.ok
          /\ feed_data' = server.body
          /\ pc' = "parse"
          /\ UNCHANGED <<exc, exit_status>>
       \/ /\ ~server.ok
          /\ Raise("TransportError")
          /\ UNCHANGED feed_data
    /\ UNCHANGED <<server, limit, items, en_html, fa_html, en_file, fa_file>>

\* line 212: items = parse_items(feed_data)
Parse ==
    /\ pc = "parse"
    /\ stages' = Append(stages, "parse")
    /\ LET r == parse_items(feed_data, limit)
       IN  \/ /\ ~r.raised
              /\ items' = r.items
              /\ pc' = "render_en"
              /\ UNCHANGED <<exc, exit_status>>
           \/ /\ r.raised
              /\ Raise(r.exc)
              /\ UNCHANGED items
    /\ UNCHANGED <<server, feed_data, limit, en_html, fa_html, en_file, fa_file>>

\* line 218: en_html = build_html(items, lang='en')
RenderEn ==
    /\ pc = "render_en"
    /\ stages' = Append(stages, "render_en")
    /\ en_html' = <<build_html(items, "en")>>
    /\ items' = ItemsAfterBuild(items)
    /\ pc' = "render_fa"
    /\ UNCHANGED <<server, feed_data, limit, fa_html, en_file, fa_file, exc, exit_status>>

\* line 219: fa_html = build_html(items, lang='fa')
RenderFa ==
    /\ pc = "render_fa"
    /\ stages' = Append(stages, "render_fa")
    /\ fa_html' = <<build_html(items, "fa")>>
    /\ items' = ItemsAfterBuild(items)
    /\ pc' = "write_en"
    /\ UNCHANGED <<server, feed_data, limit, en_html, en_file, fa_file, exc, exit_status>>

\* lines 221-222: with open(en_path, 'w', encoding='utf-8') as f: f.write(en_html)
WriteEn ==
    /\ pc = "write_en"
    /\ stages' = Append(stages, "write_en")
    /\ \E o \in WriteOutcomes :
          /\ en_file' = FileAfter(en_file, Head(en_html), o)
          /\ \/ /\ o = "ok"
                /\ pc' = "write_fa"
                /\ UNCHANGED <<exc, exit_status>>
             \/ /\ o # "ok"
                /\ Raise("OSError")
    /\ UNCHANGED <<server, feed_data, limit, items, en_html, fa_html, fa_file>>

\* lines 223-224: with open(fa_path, 'w', encoding='utf-8') as f: f.write(fa_html)
WriteFa ==
    /\ pc = "write_fa"
    /\ stages' = Append(stages, "write_fa")
    /\ \E o \in WriteOutcomes :
          /\ fa_file' = FileAfter(fa_file, Head(fa_html), o)
          /\ \/ /\ o = "ok"
                /\ pc' = "report"
                /\ UNCHANGED <<exc, exit_status>>
             \/ /\ o # "ok"
                /\ Raise("OSError")
    /\ UNCHANGED <<server, feed_data, limit, items, en_html, fa_html, en_file>>

\* line 225 and the return from main(): the status line, then exit status 0
Report ==
    /\ pc = "report"
    /\ pc' = "exit"
    /\ exit_status' = ExitOk
    /\ UNCHANGED <<server, feed_data, limit, items, en_html, fa_html,
                   en_file, fa_file, stages, exc>>

Next == Fetch \/ Parse \/ RenderEn \/ RenderFa \/ WriteEn \/ WriteFa \/ Report

Spec == Init /\ [][Next]_vars

(***************************************************************************)
(* parse_items called on its own, with any positive limit                  *)
(***************************************************************************)
InitParse ==
    /\ pc = "call"
    /\ server = [ok |-> TRUE, body |-> NoDoc]
    /\ feed_data \in Docs
    /\ limit \in (1..MaxLimit) \cup {ARTICLE_LIMIT}
    /\ items = <<>>
    /\ en_html = <<>>
    /\ fa_html = <<>>
    /\ en_file = AbsentFile
    /\ fa_file = AbsentFile
    /\ stages = <<>>
    /\ exc = ""
    /\ exit_status = -1

ParseCall ==
    /\ pc = "call"
    /\ LET r == parse_items(feed_data, limit)
       IN  /\ items' = r.items
           /\ exc' = r.exc
           /\ pc' = IF r.raised THEN "raised" ELSE "returned"
    /\ UNCHANGED <<server, feed_data, limit, en_html, fa_html, en_file, fa_file,
                   stages, exit_status>>

NextParse == ParseCall

SpecParse == InitParse /\ [][NextParse]_vars


(***************************************************************************)
(* Vocabulary of the properties                                            *)
(***************************************************************************)
Min(a, b) == IF a <= b THEN a ELSE b
Range(f) == {f[i] : i \in DOMAIN f}

\* the items of the document in feed_data, in document order
SrcItems == feed_data.items

\* the text of the first child with a tag, "" when there is none
SrcText(children) == IF children = <<>> THEN <<>> ELSE Head(children)

Entities == {AMP, LT, GT, QUOT, APOS}
EntityChar(e) ==
    CASE e = AMP -> "&" [] e = LT -> "<" [] e = GT -> ">"
      [] e = QUOT -> "\"" [] e = APOS -> "'"

StartsWith(s, e) == Len(s) >= Len(e) /\ SubSeq(s, 1, Len(e)) = e

\* no markup-significant character stands for itself in s
NoUnescaped(s) ==
    \A i \in 1..Len(s) :
        /\ s[i] \notin {"<", ">", "\"", "'"}
        /\ s[i] = "&" => \E e \in Entities : StartsWith(SubSeq(s, i, Len(s)), e)

\* one pass of entity decoding, left to right
RECURSIVE unescape(_)
unescape(s) ==
    IF s = <<>> THEN <<>>
    ELSE IF \E e \in Entities : StartsWith(s, e)
         THEN LET e == CHOOSE x \in Entities : StartsWith(s, x)
              IN  <<EntityChar(e)>> \o unescape(SubSeq(s, Len(e) + 1, Len(s)))
         ELSE <<Head(s)>> \o unescape(Tail(s))

\* the pages built so far, and the texts a page shows in its lines of one kind
Pages == Range(en_html) \cup Range(fa_html)
LinesOfKind(page, k) == SelectSeq(page.cards, LAMBDA l : l.kind = k)

Starts(lines) == {i \in 1..Len(lines) : lines[i].kind = "col_open"}
NthStart(lines, k) ==
    CHOOSE i \in Starts(lines) : Cardinality({j \in Starts(lines) : j < i}) = k - 1
\* the lines of the k-th card of a page
CardLines(lines, k) ==
    SubSeq(lines, NthStart(lines, k),
           IF k = Cardinality(Starts(lines)) THEN Len(lines)
           ELSE NthStart(lines, k + 1) - 1)
HasImg(lines, k) == \E l \in Range(CardLines(lines, k)) : l.kind = "img"

Returned == pc = "returned"
(***************************************************************************)
(* Properties of parse_items (checked under SpecParse)                     *)
(***************************************************************************)
\* C1: for a feed of N items and a limit >= 1, parse_items returns exactly
\* min(N, limit) records, the i-th being the record of the i-th item in
\* document order.
C1_BoundedInOrder ==
    Returned =>
        /\ Len(items) = Min(Len(SrcItems), limit)
        /\ \A i \in 1..Len(items) : <<items[i]>> = extract(SrcItems[i]).rec

\* C1 witness: a call returned with more items in the feed than the limit, one
\* with exactly as many, and one with fewer; here the first.
C1_Witness ==
    /\ Returned
    /\ Len(SrcItems) > limit
    /\ Len(items) = limit
    /\ items[1] # items[limit]

\* C2 as claimed: when the date does not parse (malformed, missing or
\* unsupported) the record's date is the raw source string unmodified and is
\* never empty.
C2_RawUnmodifiedNeverEmpty ==
    Returned =>
        \A i \in 1..Len(items) :
            LET raw == SrcText(SrcItems[i].pubDate)
            IN  ~parsedate_to_datetime(raw).ok =>
                    /\ items[i].date = raw
                    /\ items[i].date # <<>>

\* C2 amended: when the date does not parse the record is still produced and
\* its date is the HTML-escaped raw source string (the raw string itself when
\* it holds none of & < > " '), a missing pubDate counting as the empty
\* string; so the date is empty exactly when the raw string is.
C2_EscapedRaw ==
    Returned =>
        /\ Len(items) = Min(Len(SrcItems), limit)
        /\ \A i \in 1..Len(items) :
            LET raw == SrcText(SrcItems[i].pubDate)
            IN  ~parsedate_to_datetime(raw).ok =>
                    /\ items[i].date = escape(raw)
                    /\ unescape(items[i].date) = raw
                    /\ (items[i].date = <<>>) <=> (raw = <<>>)

\* C2 witness: a returned record whose unparseable date holds a markup
\* character, next to one whose unparseable date is plain.
C2_Witness ==
    /\ Returned
    /\ \E i, j \in 1..Len(items) :
        /\ SrcItems[i].pubDate = << <<"a", "<", "b">> >>
        /\ items[i].date = <<"a", "&", "l", "t", ";", "b">>
        /\ SrcItems[j].pubDate = << <<"not-a-date">> >>
        /\ items[j].date = <<"not-a-date">>

\* C8: parse_items raises exactly when the bytes are not well-formed, and then
\* no record list comes back; for well-formed bytes it never raises whichever
\* optional children are missing, each missing text child giving the empty
\* string and every visited item a record.
C8_FailsOnlyOnMalformed ==
    pc \in {"returned", "raised"} =>
        /\ (pc = "raised") <=> ~feed_data.wellformed
        /\ pc = "raised" => items = <<>> /\ exc = "ParseError"
        /\ pc = "returned" =>
            /\ Len(items) = Min(Len(SrcItems), limit)
            /\ \A i \in 1..Len(items) :
                /\ SrcItems[i].title = <<>> => items[i].title = <<>>
                /\ SrcItems[i].link = <<>> => items[i].link = <<>>
                /\ SrcItems[i].description = <<>> => items[i].description = <<>>
                /\ SrcItems[i].pubDate = <<>> => items[i].date = <<>>
                /\ SrcItems[i].media = <<>> => items[i].image = <<>>

\* C8 witness: a well-formed feed holding an item with every optional child
\* missing was parsed into a record of empty fields.
C8_Witness ==
    /\ Returned
    /\ \E i \in 1..Len(items) :
        /\ SrcItems[i].title = <<>> /\ SrcItems[i].pubDate = <<>>
        /\ SrcItems[i].media = <<>>
        /\ items[i] = [title |-> <<>>, link |-> <<>>, description |-> <<>>,
                       date |-> <<>>, image |-> <<>>]

(***************************************************************************)
(* Properties of the run of main() (checked under Spec)                    *)
(***************************************************************************)
Parsed == pc \notin {"fetch", "parse"} /\ exc \notin {"TransportError", "ParseError"}
TextOf(lines) == [i \in 1..Len(lines) |-> lines[i].text]
WithImage(its) == SelectSeq(its, LAMBDA r : r.image # <<>>)

\* C3: escaping happens exactly once on the way from the feed to the page.
\* Every text field of every record holds no bare < > & or quote, decoding it
\* once gives back the source text, and each page shows the record's fields
\* exactly as the record holds them.
C3_EscapedOnce ==
    \A i \in 1..Len(items) :
        LET src == SrcItems[i]
            r   == items[i]
        IN  /\ NoUnescaped(r.title) /\ NoUnescaped(r.link)
            /\ NoUnescaped(r.description) /\ NoUnescaped(r.date)
            /\ \A u \in Range(r.image) : NoUnescaped(u)
            /\ unescape(r.title) = strip(SrcText(src.title))
            /\ unescape(r.link) = strip(SrcText(src.link))
            /\ unescape(r.description) = strip(SrcText(src.description))
            /\ r.image # <<>> => <<unescape(Head(r.image))>> = Head(src.media).url
            /\ \A page \in Pages :
                /\ LinesOfKind(page, "h5")[i].text = r.title
                /\ LinesOfKind(page, "date")[i].text = r.date
                /\ LinesOfKind(page, "desc")[i].text = r.description
                /\ LinesOfKind(page, "a")[i].text = r.link
                /\ TextOf(LinesOfKind(page, "img"))
                       = [k \in 1..Len(WithImage(items)) |-> Head(WithImage(items)[k].image)]

\* C3 witness: both pages are on disk and show a description whose quotes were
\* escaped once and a title whose source text "&amp;" became "&amp;amp;".
C3_Witness ==
    /\ exit_status = ExitOk
    /\ \E i \in 1..Len(items) :
        /\ SrcItems[i].description = << <<"\"", "x", "'">> >>
        /\ SrcItems[i].title = <<AMP>>
        /\ LinesOfKind(Head(fa_file.page), "desc")[i].text = QUOT \o <<"x">> \o APOS
        /\ LinesOfKind(Head(en_file.page), "h5")[i].text = AMP \o <<"a", "m", "p", ";">>

\* C4 as claimed: the language switch link of each page names the file the
\* other page is written to (news.html <-> news-fa.html).
C4_SwitchLinksCompanion ==
    /\ \A page \in Range(en_html) : page.switch_href = fa_path
    /\ \A page \in Range(fa_html) : page.switch_href = en_path

\* C5: the stages run in the order fetch, parse, render, publish; the first
\* stage that raises is the last one executed and the exit status is then
\* non-zero; a fetch or parse failure leaves both files as they were; the exit
\* status is zero only when every stage succeeded.
C5_FailFast ==
    /\ stages = SubSeq(StageOrder, 1, Len(stages))
    /\ exc # "" => pc = "exit" /\ exit_status \notin {ExitOk, -1}
    /\ (exc = "TransportError") <=> (stages = <<"fetch">> /\ ~server.ok /\ pc = "exit")
    /\ (exc = "ParseError") <=>
           (stages = <<"fetch", "parse">> /\ ~feed_data.wellformed /\ pc = "exit")
    /\ exc \in {"TransportError", "ParseError"} =>
           /\ en_file \in {AbsentFile, OldFile} /\ fa_file \in {AbsentFile, OldFile}
           /\ en_html = <<>> /\ fa_html = <<>>
    /\ exc \notin {"", "TransportError", "ParseError"} =>
           /\ exc = "OSError"
           /\ stages[Len(stages)] \in {"write_en", "write_fa"}
    /\ pc = "exit" => ((exit_status = ExitOk) <=> (exc = ""))
    /\ pc # "exit" => exit_status = -1
    /\ exit_status = ExitOk =>
           /\ stages = StageOrder
           /\ en_file.state = "page" /\ fa_file.state = "page"

\* C5 witness: a run that ended in the parse stage with a non-zero status and
\* both files untouched.
C5_Witness ==
    /\ pc = "exit" /\ exc = "ParseError" /\ exit_status = 1
    /\ stages = <<"fetch", "parse">>
    /\ en_file = OldFile /\ fa_file = AbsentFile

\* C6 as claimed: the two writes are independent, the write of news-fa.html
\* is carried out whatever became of the write of news.html, so a run can end
\* with the alternate page written although the default page failed.
C6_WritesIndependent ==
    (pc = "exit" /\ "write_en" \in Range(stages)) => "write_fa" \in Range(stages)

\* C6 amended: the writes happen one after the other, news.html first, and
\* news-fa.html is attempted only after news.html was written; a run ends
\* with both written, with the default page written and the alternate failed,
\* or with the default failed and the alternate file untouched.  A successful
\* write leaves exactly the page in the file, whatever it held before.
C6_WritesSequential ==
    /\ "write_fa" \in Range(stages) => en_file = [state |-> "page", page |-> en_html]
    /\ "write_fa" \notin Range(stages) => fa_file \in {AbsentFile, OldFile}
    /\ (pc = "exit" /\ "write_en" \in Range(stages) /\ "write_fa" \notin Range(stages))
           => /\ exc = "OSError"
              /\ en_file \in {AbsentFile, OldFile, TruncFile}
    /\ exit_status = ExitOk => fa_file = [state |-> "page", page |-> fa_html]
    /\ (pc = "exit" /\ exc = "OSError" /\ "write_fa" \in Range(stages))
           => fa_file \in {AbsentFile, OldFile, TruncFile}

\* C6 witness: the default page was written and the write of the alternate
\* page failed.
C6_Witness ==
    /\ pc = "exit" /\ exc = "OSError"
    /\ en_file = [state |-> "page", page |-> en_html]
    /\ fa_file = TruncFile
    /\ items # <<>>

\* C7: an item without a thumbnail element gives a record without image, and
\* a page shows an image tag in a record's card exactly when the record has an
\* image.
C7_ImageIffPresent ==
    Parsed =>
        /\ \A i \in 1..Len(items) : SrcItems[i].media = <<>> => items[i].image = <<>>
        /\ \A page \in Pages :
            /\ Cardinality(Starts(page.cards)) = Len(items)
            /\ \A i \in 1..Len(items) :
                   HasImg(page.cards, i) <=> (items[i].image # <<>>)

\* C7 witness: a page holds a card with an image tag and a card without one,
\* the latter for an item that has no thumbnail element.
C7_Witness ==
    /\ fa_html # <<>>
    /\ \E i, j \in 1..Len(items) :
        /\ SrcItems[i].media = <<>>
        /\ ~HasImg(Head(fa_html).cards, i)
        /\ HasImg(Head(fa_html).cards, j)

\* C9: each page holds exactly one card per record, in record order, and as
\* many image tags as there are records with an image; both pages agree on
\* the counts; no records give a complete page with no cards.
C9_OneCardPerRecord ==
    Parsed =>
        /\ \A page \in Pages :
            /\ Cardinality(Starts(page.cards)) = Len(items)
            /\ Len(page.cards) = 10 * Len(items) + Len(WithImage(items))
            /\ TextOf(LinesOfKind(page, "h5")) = [i \in 1..Len(items) |-> items[i].title]
            /\ TextOf(LinesOfKind(page, "a")) = [i \in 1..Len(items) |-> items[i].link]
            /\ TextOf(LinesOfKind(page, "date")) = [i \in 1..Len(items) |-> items[i].date]
            /\ Len(LinesOfKind(page, "img")) = Len(WithImage(items))
            /\ items = <<>> => page.cards = <<>> /\ page.title # "" /\ page.footer # ""
        /\ \A p \in Range(en_html), q \in Range(fa_html) :
            /\ Len(LinesOfKind(p, "img")) = Len(LinesOfKind(q, "img"))
            /\ Cardinality(Starts(p.cards)) = Cardinality(Starts(q.cards))
            /\ p.dir = "ltr" /\ q.dir = "rtl"

\* C9 witness: three records, one of them with an image, rendered into both
\* pages.
C9_Witness ==
    /\ en_html # <<>> /\ fa_html # <<>>
    /\ Len(items) = 3
    /\ Len(WithImage(items)) = 1
    /\ Len(LinesOfKind(Head(en_html), "img")) = 1
    /\ Cardinality(Starts(Head(fa_html).cards)) = 3

=============================================================================
